---- MODULE Spec2Model ----
(***************************************************************************)
(* VertexAIImageCaptioner (google_vertex/captioner.py): an adapter that    *)
(* logs in to the cloud platform, loads a pretrained image-text model and  *)
(* forwards one captioning call per run.                                   *)
(*                                                                         *)
(* The external SDK (vertexai.init, ImageTextModel.from_pretrained,        *)
(* get_captions) is the environment: each call either returns or raises,   *)
(* chosen nondeterministically.  Every operation of the component is       *)
(* synchronous, so each is one action; lastOp records what the caller and  *)
(* the SDK observed of the most recent operation.                          *)
(*                                                                         *)
(* Instances share no state.  The model follows one directly constructed   *)
(* instance and the instances reconstructed from serialized data.          *)
(***************************************************************************)
EXTENDS Integers, Sequences, FiniteSets, TLC

\* components: the live instances, in order of creation.
\* given:      for each instance, the extra keyword options its construction
\*             was called with (history, not read by the component).
\* lastOp:     the most recent operation: its kind, the instance it acted on
\*             (0 if none), its argument, the SDK calls it made in order, its
\*             outcome, and whether it is a run that repeats the run just
\*             before it (same instance, same image).
VARIABLES components, given, lastOp

vars == <<components, given, lastOp>>

\* ---------------------------------------------------------------- bounds
MaxComponents == 2
MaxCaptions == 2

\* ------------------------------------------------------- value universes
\* Python's None.
NoneVal == "<None>"

\* Default of the `model` keyword of __init__.
DefaultModel == "imagetext"

\* Names the model loader knows; any other name is "not found".
Pretrained == {"imagetext", "imagetext@001"}
ModelNames == Pretrained \cup {"no-such-model"}
ProjectIds == {NoneVal, "my-project"}
Locations == {NoneVal, "europe-west1"}

\* Names of extra keyword options (**kwargs) and their values.  "image" is
\* the name run itself uses for the keyword it passes to get_captions.
OptionNames == {"number_of_results", "image"}
OptionValues == {3}

NamedParams == {"model", "project_id", "location"}

Captions == {"a", "b"}

SeqsUpTo(S, n) == UNION {[1..k -> S] : k \in 0..n}

\* Image payloads: the component reads nothing of them, so an empty and a
\* non-empty one stand for all.
Payloads == {<<>>, <<255>>}
CaptionLists == SeqsUpTo(Captions, MaxCaptions)

AuthErrors == {"AuthenticationError"}
LoadErrors == {"ModelLoadError"}
GenerationErrors == {"quota exceeded", "network failure"}

\* The qualified class name written by to_dict, and some other component's.
ThisType == "haystack_integrations.components.generators.google_vertex.captioner.VertexAIImageCaptioner"
OtherType == "haystack.components.builders.PromptBuilder"

\* ------------------------------------------------------ outcomes of calls
Return(v) == [raised |-> FALSE, value |-> v]
Raise(e) == [raised |-> TRUE, error |-> e]

\* f restricted to the keys in S.
Restrict(f, S) == [k \in S |-> f[k]]

\* Python's  {**f, **g}  for mappings with disjoint keys.
Merge(f, g) == [k \in (DOMAIN f) \cup (DOMAIN g) |-> IF k \in DOMAIN f THEN f[k] ELSE g[k]]

EmptyMap == [k \in {} |-> 0]

\* ----------------------------------------------------------- environment
\* What vertexai.init(project=, location=) may do: return, or raise when the
\* ambient credentials are missing.
InitOutcomes == {Return(NoneVal)} \cup {Raise(e) : e \in AuthErrors}

\* What ImageTextModel.from_pretrained(name) may do.  serial distinguishes
\* the handles of successive loads.
Handle(name, serial) == [model |-> name, serial |-> serial]

LoadOutcomes(name, serial) ==
    (IF name \in Pretrained THEN {Return(Handle(name, serial))} ELSE {})
        \cup {Raise(e) : e \in LoadErrors}

\* What get_captions may do: return a list of captions, or raise.
CaptionOutcomes == {Return(L) : L \in CaptionLists} \cup {Raise(e) : e \in GenerationErrors}

\* vertexai.vision_models.Image(data)
Image(data) == [image_bytes |-> data]

\* haystack ByteStream(data=...)
ByteStreams == {[data |-> p] : p \in Payloads}

Call(fn, args, outcome) == [fn |-> fn, args |-> args, outcome |-> outcome]

\* ------------------------------------------------------------- component
\* Keyword arguments a caller can give to the constructor.
KwargsSet == UNION {[S -> OptionValues] : S \in SUBSET OptionNames}

NamedArgs ==
    {Merge(Merge(m, p), l) :
        m \in {EmptyMap} \cup {[model |-> n] : n \in ModelNames},
        p \in {EmptyMap} \cup {[project_id |-> x] : x \in ProjectIds},
        l \in {EmptyMap} \cup {[location |-> x] : x \in Locations}}

KeywordArgs == {Merge(a, k) : a \in NamedArgs, k \in KwargsSet}

\* Variant of the constructor that carries on after a failed SDK call.
SwallowingConstructor(kw, initOut, loadOut) ==
    LET model == IF "model" \in DOMAIN kw THEN kw["model"] ELSE DefaultModel
        project_id == IF "project_id" \in DOMAIN kw THEN kw["project_id"] ELSE NoneVal
        location == IF "location" \in DOMAIN kw THEN kw["location"] ELSE NoneVal
        kwargs == Restrict(kw, (DOMAIN kw) \ NamedParams)
        initCall == Call("vertexai.init", [project |-> project_id, location |-> location], initOut)
        loadCall == Call("from_pretrained", [model_name |-> model], loadOut)
    IN  [calls |-> <<initCall, loadCall>>,
         result |-> Return([model_name |-> model, project_id |-> project_id,
                            location |-> location, kwargs |-> kwargs,
                            model |-> IF loadOut.raised THEN NoneVal ELSE loadOut.value])]

\* Variant of the constructor that loads the model before logging in.
LoadFirstConstructor(kw, initOut, loadOut) ==
    LET model == IF "model" \in DOMAIN kw THEN kw["model"] ELSE DefaultModel
        project_id == IF "project_id" \in DOMAIN kw THEN kw["project_id"] ELSE NoneVal
        location == IF "location" \in DOMAIN kw THEN kw["location"] ELSE NoneVal
        kwargs == Restrict(kw, (DOMAIN kw) \ NamedParams)
        initCall == Call("vertexai.init", [project |-> project_id, location |-> location], initOut)
        loadCall == Call("from_pretrained", [model_name |-> model], loadOut)
    IN  IF loadOut.raised
        THEN [calls |-> <<loadCall>>, result |-> loadOut]
        ELSE IF initOut.raised
        THEN [calls |-> <<loadCall, initCall>>, result |-> initOut]
        ELSE [calls |-> <<loadCall, initCall>>,
              result |-> Return([model_name |-> model, project_id |-> project_id,
                                 location |-> location, kwargs |-> kwargs,
                                 model |-> loadOut.value])]

\* VertexAIImageCaptioner.__init__(self, *, model="imagetext",
\*     project_id=None, location=None, **kwargs)
\* kw: the keyword arguments of the call; initOut, loadOut: what the two SDK
\* calls do.  Yields the SDK calls made, in order, and either the new
\* instance or the exception that ends construction.
Constructor(kw, initOut, loadOut) ==
    LET model == IF "model" \in DOMAIN kw THEN kw["model"] ELSE DefaultModel
        project_id == IF "project_id" \in DOMAIN kw THEN kw["project_id"] ELSE NoneVal
        location == IF "location" \in DOMAIN kw THEN kw["location"] ELSE NoneVal
        kwargs == Restrict(kw, (DOMAIN kw) \ NamedParams)
        initCall == Call("vertexai.init", [project |-> project_id, location |-> location], initOut)
        loadCall == Call("from_pretrained", [model_name |-> model], loadOut)
    IN  IF initOut.raised
        THEN [calls |-> <<initCall>>, result |-> initOut]
        ELSE IF loadOut.raised
        THEN [calls |-> <<initCall, loadCall>>, result |-> loadOut]
        ELSE [calls |-> <<initCall, loadCall>>,
              result |-> Return([model_name |-> model, project_id |-> project_id,
                                 location |-> location, kwargs |-> kwargs,
                                 model |-> loadOut.value])]

\* The stored configuration of an instance (everything but the handle).
Config(self) ==
    [model_name |-> self.model_name, project_id |-> self.project_id,
     location |-> self.location, kwargs |-> self.kwargs]

\* haystack's default_to_dict(obj, **init_parameters): the type identifier
\* of obj's class and the init parameters.
default_to_dict(init_parameters) ==
    [type |-> ThisType, init_parameters |-> init_parameters]

\* Variant of to_dict that leaves the extra options out.
to_dict_without_kwargs(self) ==
    default_to_dict([model |-> self.model_name, project_id |-> self.project_id,
                     location |-> self.location])

\* VertexAIImageCaptioner.to_dict
to_dict(self) ==
    default_to_dict(Merge([model |-> self.model_name, project_id |-> self.project_id,
                           location |-> self.location],
                          self.kwargs))

\* haystack's default_from_dict(cls, data): checks the type identifier, then
\* calls cls(**init_parameters).
default_from_dict(data, initOut, loadOut) ==
    LET init_params == IF "init_parameters" \in DOMAIN data THEN data["init_parameters"] ELSE EmptyMap
    IN  IF "type" \notin DOMAIN data
        THEN [calls |-> <<>>, result |-> Raise("DeserializationError")]
        ELSE IF data["type"] # ThisType
        THEN [calls |-> <<>>, result |-> Raise("DeserializationError")]
        ELSE Constructor(init_params, initOut, loadOut)

\* Variant of from_dict that calls the constructor without the type check.
from_dict_unchecked(data, initOut, loadOut) ==
    Constructor(IF "init_parameters" \in DOMAIN data THEN data["init_parameters"] ELSE EmptyMap,
                initOut, loadOut)

\* Variant of from_dict that hands out the handle of a live instance with the
\* same configuration instead of logging in and loading again.
from_dict_reusing(data, initOut, loadOut) ==
    LET fresh == default_from_dict(data, initOut, loadOut)
        same == {j \in 1..Len(components) :
                    /\ ~fresh.result.raised
                    /\ Config(components[j]) = Config(fresh.result.value)}
    IN  IF same # {}
        THEN [calls |-> <<>>, result |-> Return(components[CHOOSE j \in same : TRUE])]
        ELSE fresh

\* VertexAIImageCaptioner.from_dict
from_dict(data, initOut, loadOut) == default_from_dict(data, initOut, loadOut)

Reverse(s) == [k \in 1..Len(s) |-> s[Len(s) + 1 - k]]

\* self._model.get_captions(image=Image(image.data), **kwargs) as the client
\* sees it.
GetCaptions(self, image, kwargs, out) ==
    Call("get_captions", [handle |-> self.model, image |-> Image(image.data), kwargs |-> kwargs], out)

\* Variant of run that returns the captions in reverse order.
run_reversed(self, image, out) ==
    IF "image" \in DOMAIN self.kwargs
    THEN [self |-> self, calls |-> <<>>, result |-> Raise("TypeError")]
    ELSE [self |-> self, calls |-> <<GetCaptions(self, image, self.kwargs, out)>>,
          result |-> IF out.raised THEN out ELSE Return([captions |-> Reverse(out.value)])]

\* Variant of run that does not pass the extra options on.
run_without_options(self, image, out) ==
    [self |-> self, calls |-> <<GetCaptions(self, image, EmptyMap, out)>>,
     result |-> IF out.raised THEN out ELSE Return([captions |-> out.value])]

\* Variant of run that answers a failed call with an empty caption list.
run_with_fallback(self, image, out) ==
    IF "image" \in DOMAIN self.kwargs
    THEN [self |-> self, calls |-> <<>>, result |-> Raise("TypeError")]
    ELSE [self |-> self, calls |-> <<GetCaptions(self, image, self.kwargs, out)>>,
          result |-> IF out.raised THEN Return([captions |-> <<>>])
                     ELSE Return([captions |-> out.value])]

\* Variant of run that consumes the stored options.
run_popping(self, image, out) ==
    IF "image" \in DOMAIN self.kwargs
    THEN [self |-> self, calls |-> <<>>, result |-> Raise("TypeError")]
    ELSE [self |-> [self EXCEPT !.kwargs = EmptyMap],
          calls |-> <<GetCaptions(self, image, self.kwargs, out)>>,
          result |-> IF out.raised THEN out ELSE Return([captions |-> out.value])]

\* Variant of run that answers a repeated image from the previous result.
run_cached(self, image, out) ==
    IF "image" \in DOMAIN self.kwargs
    THEN [self |-> self, calls |-> <<>>, result |-> Raise("TypeError")]
    ELSE IF /\ lastOp.kind = "run"
            /\ ~lastOp.result.raised
            /\ lastOp.args = image
            /\ components[lastOp.self] = self
    THEN [self |-> self, calls |-> <<>>, result |-> lastOp.result]
    ELSE [self |-> self, calls |-> <<GetCaptions(self, image, self.kwargs, out)>>,
          result |-> IF out.raised THEN out ELSE Return([captions |-> out.value])]

\* VertexAIImageCaptioner.run(self, image).  out: what get_captions does if
\* it is reached.  Python rejects a call that gets the keyword `image` both
\* explicitly and through **self._kwargs before the callee is entered.
run(self, image, out) ==
    IF "image" \in DOMAIN self.kwargs
    THEN [self |-> self, calls |-> <<>>, result |-> Raise("TypeError")]
    ELSE [self |-> self, calls |-> <<GetCaptions(self, image, self.kwargs, out)>>,
          result |-> IF out.raised THEN out ELSE Return([captions |-> out.value])]

\* Serialized representations a caller may hand to from_dict: what to_dict
\* wrote, or that with the type identifier or configuration fields missing
\* or wrong.
WithoutKeys(f, S) == Restrict(f, (DOMAIN f) \ S)

FieldDrops(d) ==
    {{}, {"model"}, DOMAIN d["init_parameters"]}

DataFrom(d) ==
    {[d EXCEPT !["init_parameters"] = WithoutKeys(d["init_parameters"], S)] : S \in FieldDrops(d)}
        \cup {WithoutKeys(d, {"type"}), [d EXCEPT !["type"] = OtherType],
              WithoutKeys(d, {"init_parameters"})}

\* The extra keyword options among the keyword arguments kw of a construction.
ExtraOptions(kw) == Restrict(kw, (DOMAIN kw) \ NamedParams)

\* The init parameters a serialized representation carries.
InitParameters(data) ==
    IF "init_parameters" \in DOMAIN data THEN data["init_parameters"] ELSE EmptyMap

Init ==
    /\ components = <<>>
    /\ given = <<>>
    /\ lastOp = [kind |-> "none", self |-> 0, args |-> EmptyMap, calls |-> <<>>,
                 result |-> Return(NoneVal), repeat |-> FALSE]

\* captioner = VertexAIImageCaptioner(**kw)
\* Enabled until an instance exists; further instances come from from_dict,
\* which runs the same constructor.
Construct(kw, initOut, loadOut) ==
    /\ components = <<>>
    /\ LET r == Constructor(kw, initOut, loadOut)
       IN  /\ components' = IF r.result.raised THEN components ELSE Append(components, r.result.value)
           /\ given' = IF r.result.raised THEN given ELSE Append(given, ExtraOptions(kw))
           /\ lastOp' = [kind |-> "construct",
                         self |-> IF r.result.raised THEN 0 ELSE Len(components) + 1,
                         args |-> kw, calls |-> r.calls, result |-> r.result, repeat |-> FALSE]

\* VertexAIImageCaptioner.from_dict(data)
FromDict(data, initOut, loadOut) ==
    /\ Len(components) < MaxComponents
    /\ LET r == from_dict(data, initOut, loadOut)
       IN  /\ components' = IF r.result.raised THEN components ELSE Append(components, r.result.value)
           /\ given' = IF r.result.raised THEN given ELSE Append(given, ExtraOptions(InitParameters(data)))
           /\ lastOp' = [kind |-> "from_dict",
                         self |-> IF r.result.raised THEN 0 ELSE Len(components) + 1,
                         args |-> data, calls |-> r.calls, result |-> r.result, repeat |-> FALSE]

\* components[i].to_dict()
ToDict(i) ==
    /\ components' = components
    /\ given' = given
    /\ lastOp' = [kind |-> "to_dict", self |-> i, args |-> EmptyMap, calls |-> <<>>,
                  result |-> Return(to_dict(components[i])), repeat |-> FALSE]

\* components[i].run(image)
Run(i, image, out) ==
    LET r == run(components[i], image, out)
    IN  /\ components' = [components EXCEPT ![i] = r.self]
        /\ given' = given
        /\ lastOp' = [kind |-> "run", self |-> i, args |-> image, calls |-> r.calls,
                      result |-> r.result,
                      repeat |-> (lastOp.kind = "run" /\ lastOp.self = i /\ lastOp.args = image)]

ModelOf(kw) == IF "model" \in DOMAIN kw THEN kw["model"] ELSE DefaultModel

Next ==
    \/ \E kw \in KeywordArgs : \E initOut \in InitOutcomes :
          \E loadOut \in LoadOutcomes(ModelOf(kw), Len(components) + 1) :
             Construct(kw, initOut, loadOut)
    \/ \E i \in 1..Len(components) : \E data \in DataFrom(to_dict(components[i])) :
          \E initOut \in InitOutcomes :
             \E loadOut \in LoadOutcomes(IF "init_parameters" \in DOMAIN data
                                         THEN ModelOf(data["init_parameters"])
                                         ELSE DefaultModel,
                                         Len(components) + 1) :
                FromDict(data, initOut, loadOut)
    \/ \E i \in 1..Len(components) : ToDict(i)
    \/ \E i \in 1..Len(components) : \E image \in ByteStreams : \E out \in CaptionOutcomes :
          Run(i, image, out)

Spec == Init /\ [][Next]_vars

\* ------------------------------------------------------------ properties
IsRun == lastOp.kind = "run"

\* The last operation ran the constructor: directly, or through a from_dict
\* whose type identifier was accepted.
TypeAccepted(data) == "type" \in DOMAIN data /\ data["type"] = ThisType

RanConstructor ==
    \/ lastOp.kind = "construct"
    \/ lastOp.kind = "from_dict" /\ TypeAccepted(lastOp.args)

\* The keyword arguments the constructor was called with.
GivenKw == IF lastOp.kind = "construct" THEN lastOp.args ELSE InitParameters(lastOp.args)

CallsTo(fn) == {k \in 1..Len(lastOp.calls) : lastOp.calls[k].fn = fn}

\* C1: from_dict(to_dict(c)) yields a component whose model, project_id,
\* location and extra options are those of c.
C1_RoundTrip ==
    (lastOp.kind = "from_dict" /\ ~lastOp.result.raised) =>
        \A j \in 1..Len(components) :
            lastOp.args = to_dict(components[j]) =>
                Config(components[lastOp.self]) = Config(components[j])

C1_Witness ==
    /\ lastOp.kind = "from_dict"
    /\ ~lastOp.result.raised
    /\ \E j \in 1..(lastOp.self - 1) :
          /\ lastOp.args = to_dict(components[j])
          /\ components[j].kwargs # EmptyMap
          /\ components[j].model_name # DefaultModel
          /\ components[j].project_id # NoneVal
          /\ components[j].location # NoneVal

\* C2: when get_captions returns the list L, run returns the mapping with the
\* single key captions whose value is L, element for element.
C2_RunReturnsCaptions ==
    (IsRun /\ lastOp.calls # <<>> /\ ~lastOp.calls[1].outcome.raised) =>
        lastOp.result = Return([captions |-> lastOp.calls[1].outcome.value])

C2_Witness ==
    /\ IsRun
    /\ lastOp.calls # <<>>
    /\ lastOp.calls[1].outcome = Return(<<"b", "a">>)
    /\ lastOp.args.data # <<>>

C4_FailurePropagates ==
    [][(lastOp'.kind = "run" /\ lastOp'.calls # <<>> /\ lastOp'.calls[1].outcome.raised) =>
          /\ lastOp'.result = lastOp'.calls[1].outcome
          /\ Len(lastOp'.calls) = 1
          /\ components' = components]_vars

C4_Witness ==
    /\ IsRun
    /\ lastOp.calls # <<>>
    /\ lastOp.calls[1].outcome = Raise("network failure")

\* C5: when vertexai.init or the model load raises, construction ends with
\* that exception and adds no instance; after a failed init the load is not
\* attempted.
C5_FailedConstruction ==
    [][(/\ lastOp'.kind \in {"construct", "from_dict"}
        /\ \E k \in 1..Len(lastOp'.calls) : lastOp'.calls[k].outcome.raised) =>
          /\ components' = components
          /\ lastOp'.self = 0
          /\ lastOp'.result = lastOp'.calls[Len(lastOp'.calls)].outcome
          /\ lastOp'.result.raised
          /\ (lastOp'.calls[1].outcome.raised => Len(lastOp'.calls) = 1)]_vars

C5_Witness ==
    /\ lastOp.kind = "construct"
    /\ "model" \in DOMAIN lastOp.args
    /\ lastOp.args["model"] \notin Pretrained
    /\ Len(lastOp.calls) = 2
    /\ lastOp.result = Raise("ModelLoadError")
    /\ components = <<>>

\* A serialized representation that lacks the type identifier, names another
\* component, or lacks configuration fields.
Malformed(data) ==
    \/ ~TypeAccepted(data)
    \/ "init_parameters" \notin DOMAIN data
    \/ ~(NamedParams \subseteq DOMAIN data["init_parameters"])

\* C6 as stated: from_dict fails with a DeserializationError, and produces
\* no component, whenever the representation lacks the type identifier,
\* names another component or lacks configuration fields.
C6_AsStated ==
    (lastOp.kind = "from_dict" /\ Malformed(lastOp.args)) =>
        (lastOp.result = Raise("DeserializationError") /\ lastOp.self = 0)

\* C6 (amended): from_dict fails with a DeserializationError, makes no SDK
\* call and produces no component whenever the type identifier is absent or
\* not this component's; absent configuration fields are no error: if the
\* SDK calls succeed the instance is built with the constructor's defaults
\* in their place.
C6_TypeChecked ==
    [][lastOp'.kind = "from_dict" =>
          /\ ~TypeAccepted(lastOp'.args) =>
                /\ lastOp'.result = Raise("DeserializationError")
                /\ lastOp'.calls = <<>>
                /\ lastOp'.self = 0
                /\ components' = components
          /\ (/\ TypeAccepted(lastOp'.args)
              /\ \A k \in 1..Len(lastOp'.calls) : ~lastOp'.calls[k].outcome.raised) =>
                LET kw == InitParameters(lastOp'.args)
                    c == components'[lastOp'.self]
                IN  /\ ~lastOp'.result.raised
                    /\ lastOp'.self = Len(components) + 1
                    /\ c.model_name = IF "model" \in DOMAIN kw THEN kw["model"] ELSE "imagetext"
                    /\ c.project_id = IF "project_id" \in DOMAIN kw THEN kw["project_id"] ELSE NoneVal
                    /\ c.location = IF "location" \in DOMAIN kw THEN kw["location"] ELSE NoneVal]_vars

C6_Witness ==
    /\ lastOp.kind = "from_dict"
    /\ "type" \notin DOMAIN lastOp.args
    /\ lastOp.result = Raise("DeserializationError")
    /\ Len(components) = 1

\* C7: to_dict's output carries the type identifier and the configuration
\* only, never the handle; every successful from_dict makes exactly one
\* vertexai.init call and one model load and keeps the handle that load
\* returned, which no other instance holds.
C7_Reconstruction ==
    /\ lastOp.kind = "to_dict" =>
          /\ DOMAIN lastOp.result.value = {"type", "init_parameters"}
          /\ DOMAIN lastOp.result.value["init_parameters"]
                = NamedParams \cup DOMAIN components[lastOp.self].kwargs
    /\ (lastOp.kind = "from_dict" /\ ~lastOp.result.raised) =>
          /\ Len(lastOp.calls) = 2
          /\ Cardinality(CallsTo("vertexai.init")) = 1
          /\ Cardinality(CallsTo("from_pretrained")) = 1
          /\ components[lastOp.self].model = lastOp.calls[2].outcome.value
          /\ \A j \in 1..Len(components) :
                j # lastOp.self => components[j].model # components[lastOp.self].model

C7_Witness ==
    /\ lastOp.kind = "from_dict"
    /\ ~lastOp.result.raised
    /\ lastOp.self = 2
    /\ Config(components[1]) = Config(components[2])

\* C8: no operation changes an existing instance: its configuration, its
\* handle and what to_dict returns for it stay as construction left them,
\* and every captioning call of a run goes to the instance's own handle.
C8_InstanceUnchanged ==
    [][/\ \A i \in 1..Len(components) :
             /\ i <= Len(components')
             /\ components'[i] = components[i]
             /\ to_dict(components'[i]) = to_dict(components[i])
       /\ lastOp'.kind = "run" =>
             \A k \in 1..Len(lastOp'.calls) :
                lastOp'.calls[k].args.handle = components[lastOp'.self].model]_vars

C8_Witness ==
    /\ IsRun
    /\ lastOp.repeat
    /\ lastOp.result.raised
    /\ lastOp.calls # <<>>
    /\ components[lastOp.self].kwargs # EmptyMap

\* C9: every construction calls vertexai.init exactly once, first, with the
\* given project_id and location; if that returns it loads the model exactly
\* once, by the given name or imagetext when none is given.
C9_InitThenLoad ==
    RanConstructor =>
        LET kw == GivenKw
            calls == lastOp.calls
        IN  /\ Len(calls) \in {1, 2}
            /\ CallsTo("vertexai.init") = {1}
            /\ calls[1].args =
                  [project |-> IF "project_id" \in DOMAIN kw THEN kw["project_id"] ELSE NoneVal,
                   location |-> IF "location" \in DOMAIN kw THEN kw["location"] ELSE NoneVal]
            /\ calls[1].outcome.raised <=> Len(calls) = 1
            /\ Len(calls) = 2 =>
                  /\ calls[2].fn = "from_pretrained"
                  /\ calls[2].args =
                        [model_name |-> IF "model" \in DOMAIN kw THEN kw["model"] ELSE "imagetext"]

C9_Witness ==
    /\ lastOp.kind = "construct"
    /\ "model" \notin DOMAIN lastOp.args
    /\ "project_id" \in DOMAIN lastOp.args
    /\ lastOp.args["project_id"] # NoneVal
    /\ Len(lastOp.calls) = 2
    /\ ~lastOp.result.raised

\* C10 as stated: each run makes exactly one captioning call and no other
\* SDK call; to_dict makes none.
C10_AsStated ==
    /\ IsRun => (Len(lastOp.calls) = 1 /\ lastOp.calls[1].fn = "get_captions")
    /\ lastOp.kind = "to_dict" => lastOp.calls = <<>>

\* C10 (amended): each run makes no SDK call other than get_captions:
\* exactly one such call, repeated image or not, unless the extra options
\* contain one named image, in which case the call is rejected with a
\* TypeError before the client is entered; to_dict makes no SDK call.
C10_OneCallPerRun ==
    /\ IsRun =>
          IF "image" \in DOMAIN given[lastOp.self]
          THEN lastOp.calls = <<>> /\ lastOp.result = Raise("TypeError")
          ELSE Len(lastOp.calls) = 1 /\ lastOp.calls[1].fn = "get_captions"
    /\ lastOp.kind = "to_dict" => lastOp.calls = <<>>

C10_Witness ==
    /\ IsRun
    /\ lastOp.repeat
    /\ Len(lastOp.calls) = 1
    /\ ~lastOp.result.raised

====
